---- MODULE Spec2Model ----
(***************************************************************************)
(* A model of swrev: the cache item, the per-key event manager, the        *)
(* in-memory cache with its asynchronous resolve step, and the SWR engine  *)
(* (revalidate, mutate, get, getWait, subscribe, clear) of src/src/SWR.ts  *)
(* lines 1-317, with revalidate and mutate of the lenient class of lines   *)
(* 319-639, the window handlers and the option defaults of                 *)
(* src/src/options.ts, and the localStorage-backed cache, which is given   *)
(* the same calls as the in-memory cache beside it.                        *)
(*                                                                         *)
(* JavaScript runs one job at a time.  Every action below is one job: a    *)
(* public call with everything it does synchronously, the settlement of a  *)
(* fetcher promise, or one promise continuation taken from the microtask   *)
(* queue.  User code may run between any two jobs.                         *)
(*                                                                         *)
(* Objects live in pools.  A CacheItem leaves its pool when nothing can    *)
(* reach it any more (it is not stored and its resolve continuation has    *)
(* run), a getWait promise when both its listeners are gone, and a         *)
(* subscription when it is unsubscribed.  Time is kept relative to the     *)
(* clock: an expiresAt field holds expiresAt - now.                        *)
(***************************************************************************)
EXTENDS Integers, Sequences, FiniteSets, TLC

\* ------------------------------------------------------------------ bounds
MaxItems == 3      \* CacheItem objects reachable at one time
MaxSubs == 2       \* subscriptions alive at one time
MaxWaits == 2      \* getWait promises with a registered listener
MaxCalls == 3      \* calls of the public API in one behaviour

\* dedupingInterval of defaultOptions (2000 ms); the clock unit is 1000 ms.
DedupingInterval == 2

\* focusThrottleInterval of defaultOptions (5000 ms).
FocusThrottleInterval == 5

Keys == {"a"}
NoKey == ""
UndefinedKey == "undefined"   \* stands for a key argument that is undefined
FalsyKeys == {NoKey, UndefinedKey}
Values == {0, 1}           \* data; 0 is a falsy value, 1 a truthy one
Undef == -2                \* undefined
Null == -1                 \* null
NaN == -3                  \* NaN
Promise == -4              \* a promise that has not settled, as item data
NoExpiry == -2             \* expiresAt === null
Errors == {"boom"}
NoError == "none"

VARIABLES
  elements,    \* DefaultCache.elements: key -> id of the stored item, 0 if none
  items,       \* the CacheItem objects, by id
  microtasks,  \* resolve continuations whose data has settled, in queue order
  listeners,   \* the two event managers: "data" (cache.event), "err" (errors)
  subs,        \* the subscriptions, with what the latest job gave their callbacks
  waits,       \* the getWait promises
  lastFetch,   \* per key, what is left of the dedupingInterval that the
               \* latest fetcher call of a non-forced revalidate opened; -1 if over
  calls,       \* the number of public calls made so far
  last,        \* the latest job: what ran, on which key, and what it did
  variant,     \* which SWR class the instance is: "strict" (SWR.ts 28-317)
               \* or "lenient" (SWR.ts 346-639)
  options,     \* this.options: the fetcher and the dedupingInterval of the
               \* instance
  listed,      \* per event manager, the keys that its listeners Map holds
  local        \* a LocalStorageCache that is given the same calls as the
               \* DefaultCache: its elements Map and the localStorage

vars ==
  <<elements, items, microtasks, listeners, subs, waits, lastFetch, calls, last,
    variant, options, listed, local>>

Variants == {"strict", "lenient"}

\* No listener: the job was no direct call of an event manager.
NoListener == [bus |-> "none", l |-> [kind |-> "none", id |-> 0]]

\* The state as one record, so that an operation that calls another can be
\* written as the composition of their effects.  ok turns FALSE when an
\* operation needs more objects than the pools hold.  The last four fields
\* count what the running job has called so far: revalidate, the fetcher,
\* a revalidateFunction override; returns names what its result is.
\* invoked lists the listeners that the emits of the running job have
\* called, in the order of the calls, each emit opening with EmitStart;
\* fetcher and interval are the fetcher that the job called last and the
\* dedupingInterval it gave to the item of that call; listener is the
\* argument of a direct call of an event manager; producer tells whether
\* the key argument of the job is a function and evaluations counts the
\* calls of that function.
Cur ==
  [elements |-> elements, items |-> items, microtasks |-> microtasks,
   listeners |-> listeners, subs |-> subs, waits |-> waits,
   lastFetch |-> lastFetch, ok |-> TRUE,
   revalidations |-> 0, fetches |-> 0, overrides |-> 0, returns |-> "none",
   teardowns |-> [data |-> 0, err |-> 0, focus |-> 0, online |-> 0],
   invoked |-> <<>>, options |-> options, fetcher |-> "none", interval |-> -1,
   listed |-> listed, listener |-> NoListener, local |-> local,
   producer |-> FALSE, evaluations |-> 0]

Install(st) ==
  /\ elements' = st.elements
  /\ items' = st.items
  /\ microtasks' = st.microtasks
  /\ listeners' = st.listeners
  /\ subs' = st.subs
  /\ waits' = st.waits
  /\ lastFetch' = st.lastFetch
  /\ listed' = st.listed
  /\ local' = st.local

InSeq(x, seq) == \E i \in 1..Len(seq) : seq[i] = x

\* ------------------------------------------------------------- CacheItem
\* data: the value; while the item is resolving, what its promise has
\*       settled to so far (Undef before that).
\* resolving: data is still a Promise (isResolving()).
\* fetch: "none" for a value written by mutate, else the state of the
\*        fetcher call whose promise the item wraps.
NoItem ==
  [key |-> NoKey, data |-> Undef, resolving |-> FALSE, fetch |-> "free",
   expiresAt |-> NoExpiry]

\* A CacheItem around a settled value that counts as resolving.
CacheItemResolving(k, data) ==
  [key |-> k, data |-> data, resolving |-> TRUE, fetch |-> "none",
   expiresAt |-> NoExpiry]

\* new CacheItem({ data }) around a settled value.
CacheItem(k, data) ==
  [key |-> k, data |-> data, resolving |-> FALSE, fetch |-> "none",
   expiresAt |-> NoExpiry]

\* new CacheItem({ data: safeData }) around the promise of a new fetch.
PromiseItem(k) ==
  [key |-> k, data |-> Promise, resolving |-> TRUE, fetch |-> "pending",
   expiresAt |-> NoExpiry]

\* An isResolving that never sees a promise.
isResolvingNever(it) == FALSE

\* isResolving(): data instanceof Promise.
isResolving(it) == it.resolving

\* hasExpired with <= in place of <.
hasExpiredAtDeadline(it) == it.expiresAt = NoExpiry \/ it.expiresAt <= 0

hasExpired(it) == it.expiresAt = NoExpiry \/ it.expiresAt < 0

expiresIn(it, ms) == [it EXCEPT !.expiresAt = ms]

\* ------------------------------------------------- DefaultSWREventManager
IndexOf(list, l) ==
  IF InSeq(l, list)
  THEN CHOOSE i \in 1..Len(list) : list[i] = l /\ \A j \in 1..(i - 1) : list[j] # l
  ELSE 0

Splice(list, i) == SubSeq(list, 1, i - 1) \o SubSeq(list, i + 1, Len(list))

\* An includes that finds nothing.
IncludesNever(list, l) == FALSE

\* Array.prototype.includes.
Includes(list, l) == InSeq(l, list)

\* A subscribe that puts the listener in front of the others.
EventSubscribeInFront(st, bus, k, l) ==
  IF Includes(st.listeners[bus][k], l) THEN st
  ELSE [st EXCEPT !.listeners[bus][k] = <<l>> \o @,
                  !.listed[bus] = @ \cup {k}]

\* subscribe(key, listener): the key gets an empty array when the Map does
\* not hold it, and the listener is pushed unless the array includes it.
EventSubscribe(st, bus, k, l) ==
  IF Includes(st.listeners[bus][k], l) THEN st
  ELSE [st EXCEPT !.listeners[bus][k] = Append(@, l),
                  !.listed[bus] = @ \cup {k}]

\* An unsubscribe that leaves the key in the Map when its array is empty.
EventUnsubscribeKeepingKey(st, bus, k, l) ==
  IF k \notin st.listed[bus] \/ ~Includes(st.listeners[bus][k], l) THEN st
  ELSE [st EXCEPT !.listeners[bus][k] = Splice(@, IndexOf(@, l))]

\* unsubscribe(key, listener): nothing happens when the Map does not hold
\* the key or the array does not include the listener; otherwise the
\* listener is spliced out and the key is deleted when the array is empty.
EventUnsubscribe(st, bus, k, l) ==
  IF k \notin st.listed[bus] \/ ~Includes(st.listeners[bus][k], l) THEN st
  ELSE LET list == Splice(st.listeners[bus][k], IndexOf(st.listeners[bus][k], l))
       IN [st EXCEPT !.listeners[bus][k] = list,
                     !.listed[bus] = IF list = <<>> THEN @ \ {k} ELSE @]

\* One listener call.  A "sub" listener is the handler of subscribeData /
\* subscribeErrors around the user's callback, whose argument is recorded.
\* A "wait" listener is one of the two handlers of getWait: it unsubscribes
\* itself and settles the promise unless the payload is undefined.
CallListener(st0, bus, k, l, payload) ==
  LET st == [st0 EXCEPT !.invoked = Append(@, [bus |-> bus, l |-> l])]
  IN
  IF l.kind = "sub"
  THEN IF bus = "data"
       THEN [st EXCEPT !.subs[l.id].got = Append(@, payload)]
       ELSE [st EXCEPT !.subs[l.id].errs = Append(@, payload)]
  ELSE LET st1 == EventUnsubscribe(st, bus, k, l)
           w == st.waits[l.id]
       IN IF w.st # "pending" THEN st1
          ELSE IF bus = "data"
               THEN IF payload # Undef
                    THEN [st1 EXCEPT !.waits[l.id].st = "resolved",
                                     !.waits[l.id].val = payload]
                    ELSE st1
               ELSE [st1 EXCEPT !.waits[l.id].st = "rejected",
                                !.waits[l.id].err = payload]

\* listeners.get(key).forEach(...): the index runs up to the length the
\* array had when forEach started, and an index that is no longer in the
\* array (a listener spliced itself out meanwhile) is not visited.
RECURSIVE ForEach(_, _, _, _, _, _)
ForEach(st, bus, k, payload, i, n) ==
  IF i > n \/ i > Len(st.listeners[bus][k]) THEN st
  ELSE ForEach(CallListener(st, bus, k, st.listeners[bus][k][i], payload),
               bus, k, payload, i + 1, n)

EmitStart == [kind |-> "emit", id |-> 0]

\* emit(key, payload): nothing is called when the Map does not hold the key.
EventEmit(st, bus, k, payload) ==
  LET st1 == [st EXCEPT !.invoked = Append(@, [bus |-> bus, l |-> EmitStart])]
  IN IF k \notin st.listed[bus] THEN st1
     ELSE ForEach(st1, bus, k, payload, 1, Len(st.listeners[bus][k]))

\* ------------------------------------------------------------ DefaultCache
\* A has that finds no key.
CacheHasNothing(st, k) == FALSE

CacheHas(st, k) == st.elements[k] # 0

CacheGet(st, k) == st.items[st.elements[k]]

CacheBroadcast(st, k, data) == EventEmit(st, "data", k, data)

\* remove that broadcasts whatever its broadcast option says.
CacheRemoveAlwaysBroadcasting(st, k, broadcast) ==
  [CacheBroadcast(st, k, Undef) EXCEPT !.elements[k] = 0]

CacheRemove(st, k, broadcast) ==
  LET st1 == IF broadcast THEN CacheBroadcast(st, k, Undef) ELSE st
  IN [st1 EXCEPT !.elements[k] = 0]

RECURSIVE BroadcastAll(_, _)
BroadcastAll(st, ks) ==
  IF ks = {} THEN st
  ELSE LET k == CHOOSE x \in ks : TRUE
       IN BroadcastAll(CacheBroadcast(st, k, Undef), ks \ {k})

CacheClear(st, broadcast) ==
  LET st1 == IF broadcast
             THEN BroadcastAll(st, {k \in Keys : CacheHas(st, k)})
             ELSE st
  IN [st1 EXCEPT !.elements = [k \in Keys |-> 0]]

FreeItems(st) == {i \in 1..MaxItems : st.items[i].fetch = "free"}

\* set that attaches the resolve continuation of a promise item but leaves
\* a stored settled item in the map.
CacheSetKeepingSettled(st, k, it) ==
  IF FreeItems(st) = {} THEN [st EXCEPT !.ok = FALSE]
  ELSE LET id == CHOOSE i \in FreeItems(st) : \A j \in FreeItems(st) : i <= j
           keep == /\ isResolving(it)
                   /\ st.elements[k] # 0
                   /\ ~isResolving(st.items[st.elements[k]])
       IN [st EXCEPT !.items[id] = it,
                     !.elements[k] = IF keep THEN @ ELSE id,
                     !.microtasks = IF isResolving(it) THEN @ ELSE Append(@, id)]

\* set: store the item and attach the resolve continuation.  When the data
\* is not a promise the continuation is queued at once; otherwise it runs
\* when the fetcher promise settles (FetchResolve, FetchReject).
CacheSet(st, k, it) ==
  IF FreeItems(st) = {} THEN [st EXCEPT !.ok = FALSE]
  ELSE LET id == CHOOSE i \in FreeItems(st) : \A j \in FreeItems(st) : i <= j
       IN [st EXCEPT !.items[id] = it,
                     !.elements[k] = id,
                     !.microtasks = IF isResolving(it) THEN @ ELSE Append(@, id)]

\* What item.data settles to: the value itself, the fetcher's value, or
\* undefined after a failed fetch (safeData = data.catch(() => undefined)).
Detail(it) == IF it.fetch = "rejected" THEN Undef ELSE it.data

\* resolve whose continuation removes the key on null only, not on
\* undefined.
CacheResolveRemovingOnNullOnly(st, id) ==
  LET it == st.items[id]
      detail == Detail(it)
  IN IF detail = Null
     THEN CacheRemove(st, it.key, FALSE)
     ELSE IF detail = Undef THEN st
     ELSE CacheBroadcast([st EXCEPT !.items[id].data = detail,
                                    !.items[id].resolving = FALSE],
                         it.key, detail)

\* The continuation of resolve(key, value) for the item with this id.
CacheResolve(st, id) ==
  LET it == st.items[id]
      detail == Detail(it)
  IN IF detail = Undef \/ detail = Null
     THEN CacheRemove(st, it.key, FALSE)
     ELSE CacheBroadcast([st EXCEPT !.items[id].data = detail,
                                    !.items[id].resolving = FALSE],
                         it.key, detail)

\* ------------------------------------------------------- LocalStorageCache
\* The cache holds the same CacheItem objects as the DefaultCache beside it
\* (both are given the same items), in a Map of its own, and mirrors them
\* to localStorage: stored tells whether localStorage has an entry for the
\* key and data is the data of the JSON text of that entry.
NoEntry == [stored |-> FALSE, data |-> Undef]

EmptyLocal ==
  [elements |-> [k \in Keys |-> 0], storage |-> [k \in Keys |-> NoEntry]]

\* localStorage.setItem(prefix + key, JSON.stringify({ ...value, data })).
SetItem(st, k, data) ==
  [st EXCEPT !.local.storage[k] = [stored |-> TRUE, data |-> data]]

\* has(key): the Map has the key or localStorage has a text for it.
LocalHas(st, k) == st.local.elements[k] # 0 \/ st.local.storage[k].stored

\* get(key).data: of the item in the Map, or else of the item made from
\* the text in localStorage.
LocalGetData(st, k) ==
  IF st.local.elements[k] # 0 THEN st.items[st.local.elements[k]].data
  ELSE st.local.storage[k].data

\* remove(key): out of the Map and out of localStorage.
LocalRemove(st, k) ==
  [st EXCEPT !.local.elements[k] = 0, !.local.storage[k] = NoEntry]

LocalClear(st) == [st EXCEPT !.local = EmptyLocal]

\* The continuation of resolve(key, value) for the item with this id,
\* after the DefaultCache beside it has written the detail into the item.
LocalResolve(st, id) ==
  LET detail == Detail(st.items[id])
  IN IF detail = Undef \/ detail = Null THEN LocalRemove(st, st.items[id].key)
     ELSE st

\* set(key, value) up to its await: the item goes into the Map and resolve
\* attaches its continuation; data that is no promise is written to
\* localStorage before set returns.
LocalSet(st, k, id) ==
  LET st1 == [st EXCEPT !.local.elements[k] = id]
  IN IF isResolving(st.items[id]) THEN st1
     ELSE SetItem(st1, k, st.items[id].data)

\* The promise of an item settles: the continuation of resolve runs first,
\* then set goes on after its await and writes what the promise settled to
\* (undefined when it failed) to localStorage.
LocalSettle(st, id) ==
  SetItem(LocalResolve(st, id), st.items[id].key, Detail(st.items[id]))

\* --------------------------------------------------------------------- SWR
\* get that returns item.data of any stored item.
SWRGetOfAnyItem(st, k) ==
  IF CacheHas(st, k) THEN CacheGet(st, k).data ELSE Undef

\* get(key): the stored data unless the key is absent or its item resolving.
SWRGet(st, k) ==
  IF CacheHas(st, k) /\ ~isResolving(CacheGet(st, k))
  THEN CacheGet(st, k).data
  ELSE Undef

SubListener(s) == [kind |-> "sub", id |-> s]
WaitListener(w) == [kind |-> "wait", id |-> w]

subscribeData(st, k, l) == EventSubscribe(st, "data", k, l)
subscribeErrors(st, k, l) == EventSubscribe(st, "err", k, l)

NoWait == [key |-> NoKey, st |-> "free", val |-> Undef, err |-> NoError]
FreeWaits(st) == {w \in 1..MaxWaits : st.waits[w].st = "free"}

\* getWait(key): both listeners are registered first, then the promise is
\* resolved at once when get(key) is not undefined.
SWRGetWait(st, k) ==
  IF FreeWaits(st) = {} THEN [st EXCEPT !.ok = FALSE]
  ELSE LET w == CHOOSE i \in FreeWaits(st) : \A j \in FreeWaits(st) : i <= j
           st1 == [st EXCEPT !.waits[w] = [NoWait EXCEPT !.key = k, !.st = "pending"]]
           st2 == subscribeErrors(subscribeData(st1, k, WaitListener(w)),
                                  k, WaitListener(w))
           current == SWRGet(st2, k)
       IN IF current # Undef
          THEN [st2 EXCEPT !.waits[w].st = "resolved", !.waits[w].val = current]
          ELSE st2

\* --------------------------------------------------------------- options
\* The fetchers: the one of defaultOptions and one given to the constructor.
Fetchers == {"fetch", "custom"}
CustomInterval == 1

\* defaultOptions, as far as revalidate reads them.
defaultOptions == [fetcher |-> "fetch", dedupingInterval |-> DedupingInterval]

\* this.options = { ...defaultOptions, ...options } for the options that a
\* constructor call can give.
InstanceOptions ==
  [fetcher : Fetchers, dedupingInterval : {DedupingInterval, CustomInterval}]

\* A Partial<SWRRevalidateOptions>: given holds the names of the properties
\* that the object has; the other fields of the record are not read.
RevalidateOptions(given, force, fetcher, dedupingInterval) ==
  [given |-> given, force |-> force, fetcher |-> fetcher,
   dedupingInterval |-> dedupingInterval]

\* { ...a, ...b } of two such objects.
Spread(a, b) ==
  [given |-> a.given \cup b.given,
   force |-> IF "force" \in b.given THEN b.force ELSE a.force,
   fetcher |-> IF "fetcher" \in b.given THEN b.fetcher ELSE a.fetcher,
   dedupingInterval |-> IF "dedupingInterval" \in b.given
                        THEN b.dedupingInterval ELSE a.dedupingInterval]

\* defaultRevalidateOptions = { ...defaultOptions, force: false }.
defaultRevalidateOptions ==
  RevalidateOptions({"force", "fetcher", "dedupingInterval"}, FALSE,
                    defaultOptions.fetcher, defaultOptions.dedupingInterval)

\* The options that revalidate works with: { ...defaultRevalidateOptions,
\* ...{ fetcher: this.options.fetcher, dedupingInterval:
\* this.options.dedupingInterval }, ...options }.
ResolveRevalidateOptions(st, opts) ==
  Spread(Spread(defaultRevalidateOptions,
                RevalidateOptions({"fetcher", "dedupingInterval"}, FALSE,
                                  st.options.fetcher, st.options.dedupingInterval)),
         opts)

\* The condition of line 108 without its hasExpired() call.
NeedsFetchAnyEntry(st, k, force) ==
  force \/ ~CacheHas(st, k) \/ CacheHas(st, k)

\* The condition of line 108.
NeedsFetch(st, k, force) ==
  force \/ ~CacheHas(st, k) \/ (CacheHas(st, k) /\ hasExpired(CacheGet(st, k)))

\* revalidate(key, options) with a key that is present: requestData calls
\* the fetcher and the item around its promise is stored at once.
SWRRevalidateWith(st, k, opts) ==
  LET o == ResolveRevalidateOptions(st, opts)
      st0 == [st EXCEPT !.revalidations = @ + 1]
  IN IF NeedsFetch(st0, k, o.force)
     THEN LET st1 == CacheSet([st0 EXCEPT !.fetches = @ + 1,
                                          !.fetcher = o.fetcher,
                                          !.interval = o.dedupingInterval], k,
                              expiresIn(PromiseItem(k), o.dedupingInterval))
          IN IF o.force THEN st1
             ELSE [st1 EXCEPT !.lastFetch[k] = o.dedupingInterval]
     ELSE SWRGetWait(st0, k)

\* revalidate(key, { force }).
SWRRevalidate(st, k, force) ==
  SWRRevalidateWith(st, k, RevalidateOptions({"force"}, force, "fetch", DedupingInterval))

\* The revalidateFunction and then the built-in revalidate as well.
RevalidateAfterMutationBoth(st, k, force, revalidateFunction) ==
  IF revalidateFunction
  THEN [SWRRevalidate([st EXCEPT !.overrides = @ + 1], k, force)
          EXCEPT !.returns = "revalidate"]
  ELSE [SWRRevalidate(st, k, force) EXCEPT !.returns = "revalidate"]

\* revalidateFunction?.(key, revalidateOptions) ?? this.revalidate(key,
\* revalidateOptions): a revalidateFunction returns a promise, which is
\* never nullish, so the built-in revalidate runs only when none is given.
RevalidateAfterMutation(st, k, force, revalidateFunction) ==
  IF revalidateFunction
  THEN [st EXCEPT !.overrides = @ + 1, !.returns = "override"]
  ELSE [SWRRevalidate(st, k, force) EXCEPT !.returns = "revalidate"]

\* A mutate that gives its item the dedupingInterval.
SWRMutateWithExpiring(st, k, value, revalidateAfterMutation, force, revalidateFunction) ==
  LET st1 == CacheSet(st, k, expiresIn(CacheItem(k, value), DedupingInterval))
  IN IF revalidateAfterMutation
     THEN RevalidateAfterMutation(st1, k, force, revalidateFunction)
     ELSE [st1 EXCEPT !.returns = "data"]

\* mutate(key, value, { revalidate, revalidateOptions: { force },
\* revalidateFunction }) with a value that is not a function.
SWRMutateWith(st, k, value, revalidateAfterMutation, force, revalidateFunction) ==
  LET st1 == CacheSet(st, k, CacheItem(k, value))
  IN IF revalidateAfterMutation
     THEN RevalidateAfterMutation(st1, k, force, revalidateFunction)
     ELSE [st1 EXCEPT !.returns = "data"]

\* mutate(key, value) and mutate(key, value, { revalidate: true }): the
\* revalidateOptions are the ones of defaultMutateOptions, a copy of
\* defaultRevalidateOptions.
SWRMutateDefault(st, k, value) ==
  LET st1 == CacheSet(st, k, CacheItem(k, value))
  IN [SWRRevalidateWith(st1, k, defaultRevalidateOptions)
        EXCEPT !.returns = "revalidate"]

\* A mutate whose set runs the resolve continuation before it returns.
SWRMutateResolvingAtOnce(st, k, value, revalidateAfterMutation, force) ==
  LET st1 == SWRMutateWith(st, k, value, FALSE, force, FALSE)
  IN IF ~st1.ok THEN st1
     ELSE CacheResolve([st1 EXCEPT !.microtasks = SubSeq(@, 1, Len(@) - 1)],
                       st1.elements[k])

\* mutate without a revalidateFunction.
SWRMutate(st, k, value, revalidateAfterMutation, force) ==
  SWRMutateWith(st, k, value, revalidateAfterMutation, force, FALSE)

\* The lenient variant.  Its revalidate stores the item through mutate and
\* returns without waiting when no fetch is needed; its mutate stores the
\* item it is given and has no revalidateFunction.
RECURSIVE LenientRevalidate(_, _, _)
RECURSIVE LenientMutate(_, _, _, _, _)

\* mutate(key, value, { revalidate, revalidateOptions: { force } }) where
\* it is the value, when that is a CacheItem, or the new CacheItem around it.
LenientMutate(st, k, it, revalidateAfterMutation, force) ==
  LET st1 == CacheSet(st, k, it)
  IN IF revalidateAfterMutation
     THEN [LenientRevalidate(st1, k, force) EXCEPT !.returns = "revalidate"]
     ELSE [st1 EXCEPT !.returns = "undefined"]

\* revalidate that hands revalidate: true to the mutate it calls.
LenientRevalidateThroughMutate(st, k, force) ==
  LET st0 == [st EXCEPT !.revalidations = @ + 1]
  IN IF NeedsFetch(st0, k, force)
     THEN LET st1 == LenientMutate([st0 EXCEPT !.fetches = @ + 1], k,
                                   expiresIn(PromiseItem(k), DedupingInterval),
                                   TRUE, FALSE)
          IN IF force THEN st1 ELSE [st1 EXCEPT !.lastFetch[k] = DedupingInterval]
     ELSE st0

\* revalidate(key, { force }): the item around the fetcher's promise is
\* stored by mutate(key, item, { revalidate: false }).
LenientRevalidate(st, k, force) ==
  LET st0 == [st EXCEPT !.revalidations = @ + 1]
  IN IF NeedsFetch(st0, k, force)
     THEN LET st1 == LenientMutate([st0 EXCEPT !.fetches = @ + 1], k,
                                   expiresIn(PromiseItem(k), DedupingInterval),
                                   FALSE, FALSE)
          IN IF force THEN st1 ELSE [st1 EXCEPT !.lastFetch[k] = DedupingInterval]
     ELSE st0

\* A key-issue outcome that resolves to undefined instead of throwing.
KeyIssueSwallowed(st) == [st EXCEPT !.returns = "undefined"]

\* if (!key) throw new Error('... Key issue ...') in an async method: the
\* returned promise is rejected with that error.
KeyIssue(st) == [st EXCEPT !.returns = "keyError"]

\* revalidate and mutate of the strict class with any key argument.
SWRRevalidateKey(st, key, force) ==
  IF key \in FalsyKeys THEN KeyIssue(st) ELSE SWRRevalidate(st, key, force)

SWRMutateKey(st, key, value, revalidateAfterMutation, force) ==
  IF key \in FalsyKeys THEN KeyIssue(st)
  ELSE SWRMutate(st, key, value, revalidateAfterMutation, force)

\* revalidate and mutate of the lenient class with any key argument:
\* if (!key) return undefined.
LenientRevalidateKey(st, key, force) ==
  IF key \in FalsyKeys THEN [st EXCEPT !.returns = "undefined"]
  ELSE LenientRevalidate(st, key, force)

LenientMutateKey(st, key, value, revalidateAfterMutation, force) ==
  IF key \in FalsyKeys THEN [st EXCEPT !.returns = "undefined"]
  ELSE LenientMutate(st, key, CacheItem(key, value), revalidateAfterMutation, force)

\* The updater p => p + 1 of a function-form mutate, on undefined, null,
\* NaN and numbers.
Increment(p) ==
  IF p = Undef \/ p = NaN THEN NaN
  ELSE IF p = Null THEN 1
  ELSE p + 1

\* The state handed to the updater when the stored data is never read.
PreviousStateAbsent(st, k) == Undef

\* The state handed to the updater: the stored data, or undefined when the
\* key is absent or its item is resolving.
PreviousState(st, k) ==
  IF CacheHas(st, k)
  THEN IF ~isResolving(CacheGet(st, k)) THEN CacheGet(st, k).data ELSE Undef
  ELSE Undef

\* mutate(key, p => p + 1, { revalidate }).
SWRMutateFunction(st, k, revalidateAfterMutation, force) ==
  SWRMutate(st, k, Increment(PreviousState(st, k)), revalidateAfterMutation, force)

RECURSIVE RemoveEach(_, _, _)
RemoveEach(st, ks, broadcast) ==
  IF ks = <<>> THEN st
  ELSE RemoveEach(CacheRemove(st, Head(ks), broadcast), Tail(ks), broadcast)

\* clear(keys, { broadcast }): keys is undefined or null ("all"), one key,
\* or an array of keys.
SWRClear(st, keys, broadcast) ==
  IF keys.kind = "all" THEN CacheClear(st, broadcast)
  ELSE IF keys.kind = "key" THEN CacheRemove(st, keys.key, broadcast)
  ELSE RemoveEach(st, keys.keys, broadcast)

\* focus and online tell whether the handlers that focusWhen and
\* reconnectWhen add to the window are registered; throttle is what is left
\* of the focusThrottleInterval since the latest focus revalidation (-1
\* when there was none or it is over).
NoSub ==
  [key |-> NoKey, active |-> FALSE, got |-> <<>>, errs |-> <<>>,
   focus |-> FALSE, online |-> FALSE, throttle |-> -1]
FreeSubs(st) == {s \in 1..MaxSubs : ~st.subs[s].active}

\* subscribe(key, onData, onError, { loadInitialCache, revalidateOnStart })
\* with both callbacks given and no fallbackData.
SWRSubscribe(st, k, loadInitialCache, revalidateOnStart) ==
  IF FreeSubs(st) = {} THEN [st EXCEPT !.ok = FALSE]
  ELSE LET s == CHOOSE i \in FreeSubs(st) : \A j \in FreeSubs(st) : i <= j
           cachedData == IF loadInitialCache THEN SWRGet(st, k) ELSE Undef
           st1 == [st EXCEPT !.subs[s] = [NoSub EXCEPT !.key = k, !.active = TRUE,
                                                       !.focus = TRUE, !.online = TRUE]]
           st2 == IF revalidateOnStart THEN SWRRevalidate(st1, k, FALSE) ELSE st1
           st3 == IF cachedData \notin {Undef, Null, 0, NaN}
                  THEN [st2 EXCEPT !.subs[s].got = Append(@, cachedData)]
                  ELSE st2
       IN subscribeErrors(subscribeData(st3, k, SubListener(s)), k, SubListener(s))

\* The key argument of subscribe: a key, undefined, or a function that
\* returns one of the two or throws.
KeyArgs ==
  [producer : {FALSE}, yields : Keys \cup {UndefinedKey}, throws : {FALSE}]
    \cup [producer : {TRUE}, yields : Keys \cup {UndefinedKey}, throws : BOOLEAN]

\* resolveKey(key): a function is called and undefined is returned when it
\* throws; anything else is returned as it is.
resolveKey(key) ==
  IF key.producer
  THEN IF key.throws THEN UndefinedKey ELSE key.yields
  ELSE key.yields

\* One call of resolveKey(key) has run: the function, when the key
\* argument is one, was called once more.
Evaluated(st, key) ==
  IF key.producer THEN [st EXCEPT !.evaluations = @ + 1] ELSE st

\* cachedData of subscribe: get(resolveKey(key)) when loadInitialCache is
\* true, fallbackData ?? undefined otherwise.
CachedData(st, k, loadInitialCache, fallbackData) ==
  IF loadInitialCache
  THEN IF k \in FalsyKeys THEN Undef ELSE SWRGet(st, k)
  ELSE IF fallbackData = Null THEN Undef ELSE fallbackData

\* subscribe(key, onData, onError, { loadInitialCache, revalidateOnStart,
\* fallbackData }) with both callbacks given and any key argument.  The
\* handlers of focusWhen and reconnectWhen are registered in every case.
\* resolveKey(key) is called for get, for the revalidation on start and
\* for each of subscribeData and subscribeErrors.
SWRSubscribeKey(st0, key, loadInitialCache, revalidateOnStart, fallbackData) ==
  IF FreeSubs(st0) = {} THEN [st0 EXCEPT !.ok = FALSE]
  ELSE LET s == CHOOSE i \in FreeSubs(st0) : \A j \in FreeSubs(st0) : i <= j
           st == [st0 EXCEPT !.producer = key.producer]
           k == resolveKey(key)
           cachedData == CachedData(st, k, loadInitialCache, fallbackData)
           st1 == [(IF loadInitialCache THEN Evaluated(st, key) ELSE st)
                     EXCEPT !.subs[s] = [NoSub EXCEPT !.key = k, !.active = TRUE,
                                                      !.focus = TRUE, !.online = TRUE]]
           st2 == IF revalidateOnStart
                  THEN SWRRevalidateKey(Evaluated(st1, key), k, FALSE)
                  ELSE st1
           st3 == IF cachedData \notin {Undef, Null, 0, NaN}
                  THEN [st2 EXCEPT !.subs[s].got = Append(@, cachedData)]
                  ELSE st2
           st4 == Evaluated(Evaluated(st3, key), key)
       IN IF k \in FalsyKeys THEN st4
          ELSE subscribeErrors(subscribeData(st4, k, SubListener(s)), k, SubListener(s))

\* An unsubscribe function that leaves the error listener registered.
SWRUnsubscribeDataOnly(st, s) ==
  LET k == st.subs[s].key
      st1 == IF k \in FalsyKeys THEN st
             ELSE EventUnsubscribe(st, "data", k, SubListener(s))
  IN [st1 EXCEPT !.subs[s] = NoSub,
                 !.teardowns = [data |-> @.data + 1, err |-> @.err + 1,
                                focus |-> @.focus + 1, online |-> @.online + 1]]

\* The unsubscribe function returned by subscribe: the teardowns of the
\* data listener, the error listener, focusWhen and reconnectWhen.  The
\* first two do nothing when subscribeData and subscribeErrors got no key.
SWRUnsubscribe(st, s) ==
  LET k == st.subs[s].key
      st1 == IF k \in FalsyKeys THEN st
             ELSE EventUnsubscribe(EventUnsubscribe(st, "data", k, SubListener(s)),
                                   "err", k, SubListener(s))
  IN [st1 EXCEPT !.subs[s] = NoSub,
                 !.teardowns = [data |-> @.data + 1, err |-> @.err + 1,
                                focus |-> @.focus + 1, online |-> @.online + 1]]

\* The handlers of a window event run one after the other; each one that
\* notifies calls revalidate for the key of its subscription.  All handlers
\* revalidate with the same options, so the order among them is immaterial
\* and they are taken by id.
RECURSIVE NotifyEach(_, _)
NotifyEach(st, ss) ==
  IF ss = {} THEN st
  ELSE LET s == CHOOSE x \in ss : \A y \in ss : x <= y
       IN NotifyEach(SWRRevalidateKey(st, st.subs[s].key, FALSE), ss \ {s})

\* The window gets focus: rawHandler of focusWhen notifies unless the
\* latest notification is at most focusThrottleInterval old.
WindowFocus(st) ==
  LET ss == {s \in 1..MaxSubs : st.subs[s].focus /\ st.subs[s].throttle < 0}
      st1 == [st EXCEPT !.subs = [s \in 1..MaxSubs |->
                 IF s \in ss THEN [@[s] EXCEPT !.throttle = FocusThrottleInterval]
                 ELSE @[s]]]
  IN NotifyEach(st1, ss)

\* The window comes back online: every handler of reconnectWhen notifies.
WindowOnline(st) ==
  NotifyEach(st, {s \in 1..MaxSubs : st.subs[s].online})

\* ------------------------------------------------------------ housekeeping
\* An item can still be reached when it is stored or its resolve
\* continuation has not run yet.
Reachable(st, i) ==
  \/ \E k \in Keys : st.elements[k] = i
  \/ \E k \in Keys : st.local.elements[k] = i
  \/ InSeq(i, st.microtasks)
  \/ st.items[i].fetch = "pending"

HasListener(st, w) ==
  \E bus \in {"data", "err"}, k \in Keys : InSeq(WaitListener(w), st.listeners[bus][k])

Collect(st) ==
  [st EXCEPT !.items = [i \in 1..MaxItems |-> IF Reachable(st, i) THEN @[i] ELSE NoItem],
             !.waits = [w \in 1..MaxWaits |-> IF HasListener(st, w) THEN @[w] ELSE NoWait]]

\* A job starts with no callback invoked yet.
Begin(st) ==
  [st EXCEPT !.subs = [s \in 1..MaxSubs |-> [@[s] EXCEPT !.got = <<>>, !.errs = <<>>]]]

Do(st) == st.ok /\ Install(Collect(st)) /\ UNCHANGED <<variant, options>>

Pending(st) == {i \in 1..MaxItems : st.items[i].fetch = "pending"}

\* A job that is a call of the public API on key k.  flag is the force,
\* revalidate or broadcast option of the call; fetched tells whether the
\* call invoked the fetcher; had is what get(k) returned before the call;
\* detail is the value argument of the call, if it has one.
CallWith(op, k, flag, detail, st) ==
  /\ calls < MaxCalls
  /\ calls' = calls + 1
  /\ Do(st)
  /\ last' = [op |-> op, key |-> k, flag |-> flag,
              fetched |-> Cardinality(Pending(st)) > Cardinality(Pending(Cur)),
              had |-> IF k \in Keys THEN SWRGet(Cur, k) ELSE Undef,
              item |-> 0, detail |-> detail,
              revalidations |-> st.revalidations, fetches |-> st.fetches,
              overrides |-> st.overrides, returns |-> st.returns,
              teardowns |-> st.teardowns, invoked |-> st.invoked,
              fetcher |-> st.fetcher, interval |-> st.interval,
              listener |-> st.listener, producer |-> st.producer,
              evaluations |-> st.evaluations]

Call(op, k, flag, st) == CallWith(op, k, flag, Undef, st)

\* A job of the event loop: the resolve continuation of item i runs with
\* the settled value detail (i = 0 for a clock tick).
Job(op, k, i, detail, st) ==
  /\ UNCHANGED calls
  /\ Do(st)
  /\ last' = [op |-> op, key |-> k, flag |-> FALSE, fetched |-> FALSE,
              had |-> Undef, item |-> i, detail |-> detail,
              revalidations |-> st.revalidations, fetches |-> st.fetches,
              overrides |-> st.overrides, returns |-> st.returns,
              teardowns |-> st.teardowns, invoked |-> st.invoked,
              fetcher |-> st.fetcher, interval |-> st.interval,
              listener |-> st.listener, producer |-> st.producer,
              evaluations |-> st.evaluations]

\* ----------------------------------------------------------------- actions
InitState ==
  /\ elements = [k \in Keys |-> 0]
  /\ items = [i \in 1..MaxItems |-> NoItem]
  /\ microtasks = <<>>
  /\ listeners = [bus \in {"data", "err"} |-> [k \in Keys |-> <<>>]]
  /\ subs = [s \in 1..MaxSubs |-> NoSub]
  /\ waits = [w \in 1..MaxWaits |-> NoWait]
  /\ lastFetch = [k \in Keys |-> -1]
  /\ listed = [bus \in {"data", "err"} |-> {}]
  /\ local = EmptyLocal
  /\ calls = 0
  /\ last = [op |-> "init", key |-> NoKey, flag |-> FALSE, fetched |-> FALSE,
             had |-> Undef, item |-> 0, detail |-> Undef,
             revalidations |-> 0, fetches |-> 0, overrides |-> 0,
             returns |-> "none",
             teardowns |-> [data |-> 0, err |-> 0, focus |-> 0, online |-> 0],
             invoked |-> <<>>, fetcher |-> "none", interval |-> -1,
             listener |-> NoListener, producer |-> FALSE, evaluations |-> 0]

\* A new instance of the strict class.
Init == InitState /\ variant = "strict" /\ options = defaultOptions

\* A new instance of either class.
InitEither == InitState /\ variant \in Variants /\ options = defaultOptions

\* A new instance of the strict class, constructed with or without a
\* fetcher and a dedupingInterval of its own.
InitOptions == InitState /\ variant = "strict" /\ options \in InstanceOptions

Revalidate(k, force) ==
  Call("revalidate", k, force,
       IF variant = "lenient"
       THEN LenientRevalidate(Begin(Cur), k, force)
       ELSE SWRRevalidate(Begin(Cur), k, force))

Mutate(k, value, revalidateAfterMutation) ==
  CallWith("mutate", k, revalidateAfterMutation, value,
           IF variant = "lenient"
           THEN LenientMutate(Begin(Cur), k, CacheItem(k, value),
                              revalidateAfterMutation, FALSE)
           ELSE SWRMutate(Begin(Cur), k, value, revalidateAfterMutation, FALSE))

\* mutate(key, value, { revalidate: true, revalidateFunction }) of the
\* strict class.
MutateOverride(k, value) ==
  /\ variant = "strict"
  /\ CallWith("mutateOverride", k, TRUE, value,
              SWRMutateWith(Begin(Cur), k, value, TRUE, FALSE, TRUE))

\* mutate(key, value) with no options.
MutateDefault(k, value) ==
  /\ variant = "strict"
  /\ CallWith("mutate", k, TRUE, value, SWRMutateDefault(Begin(Cur), k, value))

\* revalidate(key, options) with options that name a force, a fetcher,
\* both or nothing.
RevalidateWith(k, opts) ==
  /\ variant = "strict"
  /\ Call("revalidate", k, "force" \in opts.given /\ opts.force,
          SWRRevalidateWith(Begin(Cur), k, opts))

MutateFunction(k, revalidateAfterMutation) ==
  Call("mutateFunction", k, revalidateAfterMutation,
       SWRMutateFunction(Begin(Cur), k, revalidateAfterMutation, FALSE))

\* revalidate and mutate with a key argument that may be undefined or the
\* empty string.
RevalidateKey(key, force) ==
  Call("revalidate", key, force,
       IF variant = "lenient"
       THEN LenientRevalidateKey(Begin(Cur), key, force)
       ELSE SWRRevalidateKey(Begin(Cur), key, force))

MutateKey(key, value, revalidateAfterMutation) ==
  CallWith("mutate", key, revalidateAfterMutation, value,
           IF variant = "lenient"
           THEN LenientMutateKey(Begin(Cur), key, value, revalidateAfterMutation, FALSE)
           ELSE SWRMutateKey(Begin(Cur), key, value, revalidateAfterMutation, FALSE))

\* get(key): detail is what it returns.
Get(k) == CallWith("get", k, FALSE, SWRGet(Begin(Cur), k), Begin(Cur))

ClearKeys ==
  {[kind |-> "all"]}
    \cup {[kind |-> "key", key |-> k] : k \in Keys}
    \cup {[kind |-> "array", keys |-> <<k1, k2>>] : k1 \in Keys, k2 \in Keys}

Clear(keys, broadcast) ==
  Call("clear", NoKey, broadcast, SWRClear(Begin(Cur), keys, broadcast))

GetWait(k) == Call("getWait", k, FALSE, SWRGetWait(Begin(Cur), k))

Subscribe(k, loadInitialCache, revalidateOnStart) ==
  Call("subscribe", k, revalidateOnStart,
       SWRSubscribe(Begin(Cur), k, loadInitialCache, revalidateOnStart))

SubscribeKey(key, loadInitialCache, revalidateOnStart, fallbackData) ==
  CallWith("subscribe", resolveKey(key), loadInitialCache, fallbackData,
           SWRSubscribeKey(Begin(Cur), key, loadInitialCache, revalidateOnStart,
                           fallbackData))

Unsubscribe(s) ==
  /\ subs[s].active
  /\ Call("unsubscribe", subs[s].key, FALSE, SWRUnsubscribe(Begin(Cur), s))

\* The fetcher's promise is fulfilled with v.  This happens in a job of
\* its own, after the microtask queue has drained; data and safeData settle
\* to v and the resolve continuation of the item runs next.
FetchResolve(i, v) ==
  /\ microtasks = <<>>
  /\ items[i].fetch = "pending"
  /\ Job("fetchResolve", items[i].key, i, v,
         CacheResolve([Begin(Cur) EXCEPT !.items[i].fetch = "resolved",
                                         !.items[i].data = v,
                                         !.returns = "value"], i))

\* A requestData whose catch handler returns undefined in both classes.
RequestDataFailureSwallowed(class) == "undefined"

\* What the promise of requestData, and with it the promise of the
\* revalidate call that awaits it, settles to when the fetcher fails: the
\* strict class throws the reason again, the lenient class returns
\* undefined.
RequestDataFailure(class) ==
  IF class = "lenient" THEN "undefined" ELSE "error"

\* The fetcher's promise is rejected with e: the catch handler of
\* requestData emits e on the error bus, then safeData settles to undefined
\* and the resolve continuation of the item runs.
FetchReject(i, e) ==
  /\ microtasks = <<>>
  /\ items[i].fetch = "pending"
  /\ Job("fetchReject", items[i].key, i, Undef,
         CacheResolve(EventEmit([Begin(Cur) EXCEPT
                                   !.items[i].fetch = "rejected",
                                   !.returns = RequestDataFailure(variant)],
                                "err", items[i].key, e), i))

\* The next queued resolve continuation runs.
Resolve ==
  /\ microtasks # <<>>
  /\ LET i == Head(microtasks)
     IN Job("resolve", items[i].key, i, Detail(items[i]),
            CacheResolve([Begin(Cur) EXCEPT !.microtasks = Tail(@)], i))

\* The clock advances by one unit: every expiresAt - now shrinks by one
\* (kept at -1 once in the past).
Elapse(t) == IF t >= 0 THEN t - 1 ELSE t

Tick ==
  /\ microtasks = <<>>
  /\ \/ \E i \in 1..MaxItems : items[i].expiresAt >= 0
     \/ \E k \in Keys : lastFetch[k] >= 0
     \/ \E s \in 1..MaxSubs : subs[s].throttle >= 0
  /\ Job("tick", NoKey, 0, Undef,
         [Begin(Cur) EXCEPT
            !.items = [i \in 1..MaxItems |-> [@[i] EXCEPT !.expiresAt = Elapse(@)]],
            !.lastFetch = [k \in Keys |-> Elapse(@[k])],
            !.subs = [s \in 1..MaxSubs |-> [@[s] EXCEPT !.throttle = Elapse(@)]]])

\* The window's focus event and online event.
\* Direct calls of an event manager (the one of the cache): subscribe,
\* unsubscribe and emit with any listener.  The listeners are the handlers
\* that the SWR classes make: plain ones and ones that unsubscribe
\* themselves when they are called.
BusListeners ==
  {SubListener(s) : s \in 1..MaxSubs} \cup {WaitListener(w) : w \in 1..MaxWaits}

BusSubscribe(k, l) ==
  Job("busSubscribe", k, 0, Undef,
      [EventSubscribe(Begin(Cur), "data", k, l)
         EXCEPT !.listener = [bus |-> "data", l |-> l]])

BusUnsubscribe(k, l) ==
  Job("busUnsubscribe", k, 0, Undef,
      [EventUnsubscribe(Begin(Cur), "data", k, l)
         EXCEPT !.listener = [bus |-> "data", l |-> l]])

BusEmit(k, payload) ==
  Job("busEmit", k, 0, payload, EventEmit(Begin(Cur), "data", k, payload))

\* Direct calls of the two caches, each call made on both: set with settled
\* data or with a promise, remove and clear, and the jobs that follow: a
\* promise settles (to undefined when it is the safeData of a failed
\* fetch), the continuation of a settled item runs.
CachesSet(k, it) ==
  LET st1 == CacheSet(Begin(Cur), k, it)
  IN CallWith("cacheSet", k, isResolving(it), it.data,
              IF st1.ok THEN LocalSet(st1, k, st1.elements[k]) ELSE st1)

CachesRemove(k) ==
  Call("cacheRemove", k, FALSE, LocalRemove(CacheRemove(Begin(Cur), k, FALSE), k))

CachesClear ==
  Call("cacheClear", NoKey, FALSE, LocalClear(CacheClear(Begin(Cur), FALSE)))

CachesSettle(i, v) ==
  /\ microtasks = <<>>
  /\ items[i].fetch = "pending"
  /\ LET st1 == [Begin(Cur) EXCEPT
                   !.items[i].fetch = IF v = Undef THEN "rejected" ELSE "resolved",
                   !.items[i].data = v]
     IN Job("cacheSettle", items[i].key, i, v, LocalSettle(CacheResolve(st1, i), i))

CachesResolve ==
  /\ microtasks # <<>>
  /\ LET i == Head(microtasks)
     IN Job("cacheResolve", items[i].key, i, Detail(items[i]),
            LocalResolve(CacheResolve([Begin(Cur) EXCEPT !.microtasks = Tail(@)], i), i))

Focus ==
  /\ \E s \in 1..MaxSubs : subs[s].focus
  /\ Call("focus", NoKey, FALSE, WindowFocus(Begin(Cur)))

Online ==
  /\ \E s \in 1..MaxSubs : subs[s].online
  /\ Call("online", NoKey, FALSE, WindowOnline(Begin(Cur)))

Next ==
  \/ \E k \in Keys, force \in BOOLEAN : Revalidate(k, force)
  \/ \E k \in Keys, v \in Values \cup {Null}, r \in BOOLEAN : Mutate(k, v, r)
  \/ \E keys \in ClearKeys, b \in BOOLEAN : Clear(keys, b)
  \/ \E k \in Keys : GetWait(k)
  \/ \E k \in Keys, lic \in BOOLEAN, ros \in BOOLEAN : Subscribe(k, lic, ros)
  \/ \E s \in 1..MaxSubs : Unsubscribe(s)
  \/ \E i \in 1..MaxItems, v \in Values \cup {Null} : FetchResolve(i, v)
  \/ \E i \in 1..MaxItems, e \in Errors : FetchReject(i, e)
  \/ Resolve
  \/ Tick

Spec == Init /\ [][Next]_vars

\* Only non-forced revalidate calls (direct or from subscribe), fetch
\* settlements and the clock: no mutate, no clear, no forced revalidate.
NextDedup ==
  \/ \E k \in Keys : Revalidate(k, FALSE)
  \/ \E k \in Keys, lic \in BOOLEAN, ros \in BOOLEAN : Subscribe(k, lic, ros)
  \/ \E s \in 1..MaxSubs : Unsubscribe(s)
  \/ \E i \in 1..MaxItems, v \in Values \cup {Null} : FetchResolve(i, v)
  \/ \E i \in 1..MaxItems, e \in Errors : FetchReject(i, e)
  \/ Tick

SpecDedup == Init /\ [][NextDedup]_vars

\* Subscriptions with the default options (loadInitialCache and
\* revalidateOnStart true), getWait calls, fetch settlements and the clock.
NextSubscribers ==
  \/ \E k \in Keys : Subscribe(k, TRUE, TRUE)
  \/ \E s \in 1..MaxSubs : Unsubscribe(s)
  \/ \E k \in Keys : GetWait(k)
  \/ \E i \in 1..MaxItems, v \in Values \cup {Null} : FetchResolve(i, v)
  \/ \E i \in 1..MaxItems, e \in Errors : FetchReject(i, e)
  \/ Tick

SpecSubscribers == Init /\ [][NextSubscribers]_vars

\* Writes by mutate (value and function form), revalidate calls, fetch
\* settlements, resolve continuations and the clock.
NextMutate ==
  \/ \E k \in Keys, force \in BOOLEAN : Revalidate(k, force)
  \/ \E k \in Keys, v \in Values \cup {Null}, r \in BOOLEAN : Mutate(k, v, r)
  \/ \E k \in Keys, r \in BOOLEAN : MutateFunction(k, r)
  \/ \E i \in 1..MaxItems, v \in Values \cup {Null} : FetchResolve(i, v)
  \/ \E i \in 1..MaxItems, e \in Errors : FetchReject(i, e)
  \/ Resolve
  \/ Tick

SpecMutate == Init /\ [][NextMutate]_vars

\* revalidate and mutate of an instance of either class, with the fetch
\* settlements, resolve continuations and clock ticks between them.
NextEither ==
  \/ \E k \in Keys, force \in BOOLEAN : Revalidate(k, force)
  \/ \E k \in Keys, v \in Values \cup {Null}, r \in BOOLEAN : Mutate(k, v, r)
  \/ \E k \in Keys, v \in Values : MutateOverride(k, v)
  \/ \E i \in 1..MaxItems, v \in Values \cup {Null} : FetchResolve(i, v)
  \/ \E i \in 1..MaxItems, e \in Errors : FetchReject(i, e)
  \/ Resolve
  \/ Tick

SpecEither == InitEither /\ [][NextEither]_vars

\* Every call of Next, and get.
NextGet ==
  \/ Next
  \/ \E k \in Keys : Get(k)

SpecGet == Init /\ [][NextGet]_vars

\* Subscriptions with the window events that make them revalidate.
NextWindow ==
  \/ \E k \in Keys, lic \in BOOLEAN, ros \in BOOLEAN : Subscribe(k, lic, ros)
  \/ \E s \in 1..MaxSubs : Unsubscribe(s)
  \/ Focus
  \/ Online
  \/ \E i \in 1..MaxItems, v \in Values \cup {Null} : FetchResolve(i, v)
  \/ \E i \in 1..MaxItems, e \in Errors : FetchReject(i, e)
  \/ Tick

SpecWindow == Init /\ [][NextWindow]_vars

\* revalidate and mutate of an instance of either class with any key
\* argument, a usable key or not.
NextKeys ==
  \/ \E key \in Keys \cup FalsyKeys, force \in BOOLEAN : RevalidateKey(key, force)
  \/ \E key \in Keys \cup FalsyKeys, v \in Values \cup {Null}, r \in BOOLEAN :
       MutateKey(key, v, r)
  \/ \E i \in 1..MaxItems, v \in Values \cup {Null} : FetchResolve(i, v)
  \/ \E i \in 1..MaxItems, e \in Errors : FetchReject(i, e)
  \/ Resolve
  \/ Tick

SpecKeys == InitEither /\ [][NextKeys]_vars

\* subscribe with any key argument and with or without fallbackData, the
\* window events, writes by mutate, fetch settlements and the clock.
NextSubscribeKeys ==
  \/ \E key \in KeyArgs, lic \in BOOLEAN, ros \in BOOLEAN, fb \in {Undef, 1} :
       SubscribeKey(key, lic, ros, fb)
  \/ \E s \in 1..MaxSubs : Unsubscribe(s)
  \/ \E k \in Keys, v \in Values : Mutate(k, v, FALSE)
  \/ Focus
  \/ Online
  \/ \E i \in 1..MaxItems, v \in Values \cup {Null} : FetchResolve(i, v)
  \/ \E i \in 1..MaxItems, e \in Errors : FetchReject(i, e)
  \/ Resolve
  \/ Tick

SpecSubscribeKeys == Init /\ [][NextSubscribeKeys]_vars

\* Instances with any options: mutate without options and with
\* revalidateOptions, revalidate with any options, fetch settlements and
\* the clock.
NextOptions ==
  \/ \E k \in Keys, v \in Values : MutateDefault(k, v)
  \/ \E k \in Keys, v \in Values, r \in BOOLEAN : Mutate(k, v, r)
  \/ \E k \in Keys, given \in SUBSET {"force", "fetcher"}, f \in Fetchers :
       RevalidateWith(k, RevalidateOptions(given, TRUE, f, DedupingInterval))
  \/ \E i \in 1..MaxItems, v \in Values \cup {Null} : FetchResolve(i, v)
  \/ \E i \in 1..MaxItems, e \in Errors : FetchReject(i, e)
  \/ Resolve
  \/ Tick

SpecOptions == InitOptions /\ [][NextOptions]_vars

\* An event manager on its own.
NextBus ==
  \/ \E k \in Keys, l \in BusListeners : BusSubscribe(k, l)
  \/ \E k \in Keys, l \in BusListeners : BusUnsubscribe(k, l)
  \/ \E k \in Keys, v \in Values : BusEmit(k, v)

SpecBus == Init /\ [][NextBus]_vars

\* A DefaultCache and a LocalStorageCache side by side.
NextCaches ==
  \/ \E k \in Keys :
       \E it \in {CacheItem(k, v) : v \in Values \cup {Null}} \cup {PromiseItem(k)} :
         CachesSet(k, it)
  \/ \E k \in Keys : CachesRemove(k)
  \/ CachesClear
  \/ \E i \in 1..MaxItems, v \in Values \cup {Null, Undef} : CachesSettle(i, v)
  \/ CachesResolve

SpecCaches == Init /\ [][NextCaches]_vars

\* ------------------------------------------------------------------ claims
\* The fetcher calls of key k that have not settled.
InFlight(k) == {i \in 1..MaxItems : items[i].key = k /\ items[i].fetch = "pending"}

\* The latest job was a non-forced revalidate of key k, called directly or
\* by subscribe (revalidateOnStart).
NonForcedRevalidate(k) ==
  /\ last.key = k
  /\ \/ last.op = "revalidate" /\ ~last.flag
     \/ last.op = "subscribe" /\ last.flag

EntryOfLastFetch(k) ==
  /\ CacheHas(Cur, k)
  /\ CacheGet(Cur, k).fetch # "none"
  /\ CacheGet(Cur, k).expiresAt = lastFetch[k]

ActiveSubs(k) == {s \in 1..MaxSubs : subs[s].active /\ subs[s].key = k}

\* The latest job ran the resolve continuation of an item.
Continuation(op) == op \in {"fetchResolve", "fetchReject", "resolve"}

\* C3: two subscribe calls were the only calls so far, the second one did
\* not call the fetcher but waits for the fetch of the first (the fetcher
\* was called once); when that fetch resolves to a value v, onData of both
\* subscriptions is invoked with v.
C3_BothSubscribersGetValue ==
  [][\A k \in Keys :
       (/\ calls = 2 /\ Cardinality(ActiveSubs(k)) = 2
        /\ Cardinality(InFlight(k)) = 1
        /\ \E w \in 1..MaxWaits : waits[w].key = k /\ waits[w].st = "pending"
        /\ last'.op = "fetchResolve" /\ last'.key = k /\ last'.detail \in Values)
         => \A s \in ActiveSubs(k) : subs'[s].got = <<last'.detail>>]_vars

\* C4: when the resolve continuation of an item runs while a newer item is
\* stored under its key, the key keeps the newer item, unaltered.
C4_StaleSettleKeepsNewerItem ==
  [][\A k \in Keys :
       (/\ Continuation(last'.op) /\ last'.key = k
        /\ elements[k] \notin {0, last'.item})
         => /\ elements'[k] = elements[k]
            /\ items'[elements[k]] = items[elements[k]]]_vars

\* C5: when the resolve continuation of an item runs right after a clear
\* or remove that took its key out of the cache, no data listener of the
\* key is invoked.
C5_NoBroadcastAfterRemoval ==
  [][\A k \in Keys :
       (/\ last.op = "clear" /\ elements[k] = 0
        /\ Continuation(last'.op) /\ last'.key = k)
         => /\ \A s \in ActiveSubs(k) : subs'[s].got = <<>>
            /\ listeners'["data"][k] = listeners["data"][k]]_vars

\* C6 as stated: a revalidate that calls the fetcher while get(k) returns a
\* value v leaves get(k) returning v.
C6_StaleValueServedWhileRevalidating ==
  [][\A k \in Keys :
       (/\ SWRGet(Cur, k) \in Values
        /\ last'.op = "revalidate" /\ last'.key = k /\ last'.fetched)
         => SWRGet(Cur, k)' = SWRGet(Cur, k)]_vars

\* C6 amended: after a call that invoked the fetcher for k, get(k) returns
\* undefined, whatever it returned before; and a subscribe that finds the
\* resolving entry of an unsettled fetch delivers nothing synchronously.
C6_AbsentWhileRevalidating ==
  \A k \in Keys :
    /\ (last.key = k /\ last.fetched) => SWRGet(Cur, k) = Undef
    /\ (/\ last.op = "subscribe" /\ last.key = k /\ ~last.fetched
        /\ CacheHas(Cur, k) /\ isResolving(CacheGet(Cur, k)))
         => \A s \in ActiveSubs(k) : subs[s].got = <<>>

\* A revalidate has just called the fetcher for a key whose get returned a
\* value before the call, and get now returns undefined.
C6_Witness ==
  \E k \in Keys :
    /\ last.op = "revalidate" /\ last.key = k /\ last.fetched
    /\ last.had \in Values
    /\ SWRGet(Cur, k) = Undef

\* C7: a subscribe with the default options is the only subscribe so far
\* (at most one other call was made) and its fetch is unsettled; when the
\* fetch resolves to a value v, its onData is invoked with v exactly once.
C7_SubscriberGetsValueOnce ==
  [][\A k \in Keys :
       (/\ calls <= 2 /\ Cardinality(ActiveSubs(k)) = 1
        /\ Cardinality(InFlight(k)) = 1
        /\ last'.op = "fetchResolve" /\ last'.key = k /\ last'.detail \in Values)
         => \A s \in ActiveSubs(k) : subs'[s].got = <<last'.detail>>]_vars

\* C8: when a fetch of key k rejects with e, onError of every subscription
\* of k is invoked exactly once with e, no onData is invoked, and get(k)
\* returns undefined afterwards.
C8_RejectionReachesEveryErrorListener ==
  [][\A k \in Keys :
       (last'.op = "fetchReject" /\ last'.key = k)
         => /\ \A s \in ActiveSubs(k) :
                 /\ \E e \in Errors : subs'[s].errs = <<e>>
                 /\ subs'[s].got = <<>>
            /\ SWRGet(Cur, k)' = Undef]_vars

\* C9: a stored entry is resolving only while its fetch is unsettled, and
\* right after a fetch failure the key of the fetch is not in the cache.
C9_NoEntryStaysResolving ==
  /\ \A k \in Keys :
       (CacheHas(Cur, k) /\ isResolving(CacheGet(Cur, k)))
         => CacheGet(Cur, k).fetch = "pending"
  /\ last.op = "fetchReject" => ~CacheHas(Cur, last.key)

\* The fetch of a stored resolving entry has just failed and its key is no
\* longer in the cache.
C9_Witness ==
  /\ last.op = "fetchReject"
  /\ ~CacheHas(Cur, last.key)
  /\ \A i \in 1..MaxItems : items[i].fetch \notin {"pending", "rejected"}

\* C10: when the resolve continuation of an item runs and its data has
\* settled to null or undefined, the key is not in the cache afterwards
\* and no data listener of the key is invoked.
C10_NullSettleRemovesWithoutBroadcast ==
  [][\A k \in Keys :
       (/\ Continuation(last'.op) /\ last'.key = k
        /\ last'.detail \in {Null, Undef})
         => /\ elements'[k] = 0
            /\ \A s \in 1..MaxSubs : subs'[s].got = <<>>
            /\ listeners'["data"][k] = listeners["data"][k]]_vars

\* The continuation of a set whose data is null has just run while a
\* subscription and a getWait were listening on the key.
C10_Witness ==
  \E k \in Keys :
    /\ Continuation(last.op) /\ last.key = k /\ last.detail = Null
    /\ ~CacheHas(Cur, k)
    /\ ActiveSubs(k) # {}
    /\ \E w \in 1..MaxWaits : InSeq(WaitListener(w), listeners["data"][k])

\* C11: right after mutate(k, v, { revalidate: false }) get(k) returns v,
\* whether k was absent, settled or resolving before the call.
C11_GetAfterMutateReturnsValue ==
  \A k \in Keys :
    (last.op = "mutate" /\ last.key = k /\ ~last.flag)
      => SWRGet(Cur, k) = last.detail

\* mutate(k, v, { revalidate: false }) has just written v over the
\* resolving entry of a fetch that is still unsettled.
C11_Witness ==
  \E k \in Keys :
    /\ last.op = "mutate" /\ last.key = k /\ ~last.flag
    /\ last.detail \in Values /\ last.had = Undef
    /\ InFlight(k) # {}
    /\ SWRGet(Cur, k) = last.detail

\* C12: right after mutate(k, p => p + 1, { revalidate: false }) get(k)
\* returns the updater's result for the value get(k) returned before the
\* call (undefined when k was absent or resolving).
C12_FunctionMutateStoresUpdate ==
  \A k \in Keys :
    (last.op = "mutateFunction" /\ last.key = k /\ ~last.flag)
      => SWRGet(Cur, k) = Increment(last.had)

\* mutate(k, p => p + 1) has just turned a stored 1 into 2.
C12_Witness ==
  \E k \in Keys :
    /\ last.op = "mutateFunction" /\ last.key = k /\ ~last.flag
    /\ last.had = 1
    /\ SWRGet(Cur, k) = 2

\* C13: a getWait promise that is pending, and whose listener is the only
\* getWait listener of its key, resolves with the next value that is
\* broadcast for the key.
C13_GetWaitResolvesWithNextValue ==
  [][\A k \in Keys, w \in 1..MaxWaits :
       (/\ waits[w].st = "pending" /\ waits[w].key = k
        /\ \A i \in 1..Len(listeners["data"][k]) :
             listeners["data"][k][i].kind = "wait" => listeners["data"][k][i].id = w
        /\ Continuation(last'.op) /\ last'.key = k /\ last'.detail \in Values)
         => waits'[w].st = "resolved" /\ waits'[w].val = last'.detail]_vars

\* C14: a getWait promise that has settled has neither its data listener
\* nor its error listener registered any more.
C14_SettledGetWaitHasNoListener ==
  \A w \in 1..MaxWaits :
    waits[w].st \in {"resolved", "rejected"} => ~HasListener(Cur, w)

\* C15: one call of revalidate runs revalidate once, one call of mutate
\* runs it once when its revalidate option is true and not at all
\* otherwise, no job calls the fetcher more than once, and the job in
\* which a cache write settles and is broadcast runs no revalidate and
\* calls no fetcher.
C15_FiniteCallChain ==
  /\ last.fetches <= 1
  /\ last.op = "revalidate" => last.revalidations = 1
  /\ last.op = "mutate" => last.revalidations = IF last.flag THEN 1 ELSE 0
  /\ Continuation(last.op) => last.revalidations = 0 /\ last.fetches = 0

\* A forced revalidate of the lenient class has just stored its fetch
\* through mutate.
C15_Witness ==
  /\ variant = "lenient"
  /\ last.op = "revalidate" /\ last.flag
  /\ last.revalidations = 1 /\ last.fetches = 1
  /\ \E k \in Keys : last.key = k /\ CacheHas(Cur, k) /\ isResolving(CacheGet(Cur, k))

C17_GetChangesNothing ==
  [][\A k \in Keys :
       (last'.op = "get" /\ last'.key = k)
         => /\ elements' = elements /\ items' = items
            /\ microtasks' = microtasks /\ listeners' = listeners
            /\ waits' = waits /\ lastFetch' = lastFetch
            /\ last'.fetches = 0 /\ last'.revalidations = 0
            /\ last'.detail = IF elements[k] # 0 /\ ~items[elements[k]].resolving
                               THEN items[elements[k]].data
                               ELSE Undef]_vars

\* get has just returned undefined for a key whose stored item is
\* resolving, while a subscription listens on the key.
C17_Witness ==
  \E k \in Keys :
    /\ last.op = "get" /\ last.key = k /\ last.detail = Undef
    /\ CacheHas(Cur, k) /\ isResolving(CacheGet(Cur, k))
    /\ ActiveSubs(k) # {}

\* C18: a clear or remove with broadcast true of a key that is present
\* invokes onData of every subscription of the key with undefined (and with
\* nothing else), and the key is absent afterwards.  Keys has one key, so
\* every argument of clear names it.
C18_BroadcastRemovalReachesEveryListener ==
  [][\A k \in Keys :
       (last'.op = "clear" /\ last'.flag /\ elements[k] # 0)
         => /\ elements'[k] = 0
            /\ \A s \in ActiveSubs(k) :
                 /\ Len(subs'[s].got) >= 1
                 /\ \A i \in 1..Len(subs'[s].got) : subs'[s].got[i] = Undef]_vars

\* C19: a subscription that has been unsubscribed has no listener on the
\* cache, on the error bus or on the window and none of its callbacks is
\* invoked by any later job; the call of unsubscribe ran each of the four
\* teardowns once.
C19_UnsubscribedIsSilent ==
  /\ \A s \in 1..MaxSubs :
       ~subs[s].active
         => /\ subs[s].got = <<>> /\ subs[s].errs = <<>>
            /\ ~subs[s].focus /\ ~subs[s].online
            /\ \A bus \in {"data", "err"}, k \in Keys :
                 ~InSeq(SubListener(s), listeners[bus][k])
  /\ last.op = "unsubscribe"
       => last.teardowns = [data |-> 1, err |-> 1, focus |-> 1, online |-> 1]

\* The first of two subscriptions was unsubscribed, then a fetch failed:
\* the error reached the second subscription only.
C19_Witness ==
  /\ last.op = "fetchReject"
  /\ ~subs[1].active /\ subs[1].errs = <<>>
  /\ subs[2].active /\ subs[2].errs # <<>>

\* C20: a subscribe with loadInitialCache true on a key for which get
\* returns a value (0 included) invokes its onData with that value before
\* it returns.
C20_SubscribeDeliversCachedValue ==
  \A k \in Keys :
    (last.op = "subscribe" /\ last.key = k /\ last.had \in Values)
      => \E s \in ActiveSubs(k) : subs[s].got = <<last.had>>

\* C21: revalidate and mutate called with a key that is undefined or empty
\* call no fetcher and leave the cache, the pending continuations and the
\* listener registrations as they were; the promise they return is rejected
\* with a key error in the strict class and resolves to undefined in the
\* lenient class.
C21_KeylessCallChangesNothing ==
  [][(last'.op \in {"revalidate", "mutate"} /\ last'.key \in FalsyKeys)
       => /\ elements' = elements /\ items' = items
          /\ microtasks' = microtasks /\ listeners' = listeners
          /\ waits' = waits
          /\ last'.fetches = 0 /\ ~last'.fetched
          /\ last'.returns = IF variant = "strict" THEN "keyError" ELSE "undefined"]_vars

\* mutate with an empty key has just been refused by an instance of the
\* strict class whose cache holds a value.
C21_Witness ==
  /\ variant = "strict"
  /\ last.op = "mutate" /\ last.key = NoKey /\ last.returns = "keyError"
  /\ \E k \in Keys : SWRGet(Cur, k) \in Values

\* C22: when a fetch fails, the promise of the revalidate call that issued
\* it is rejected with the error in the strict class and resolves to
\* undefined in the lenient class; a revalidate of the same key that comes
\* next calls the fetcher again.
C22_FailedFetchSettlesRevalidate ==
  [][/\ last'.op = "fetchReject"
          => last'.returns = IF variant = "strict" THEN "error" ELSE "undefined"
     /\ (last.op = "fetchReject" /\ last'.op = "revalidate" /\ last'.key = last.key)
          => last'.fetches = 1 /\ last'.fetched]_vars

\* A fetch of the strict class has just failed inside its
\* dedupingInterval: the revalidate that issued it is rejected, the key has
\* no entry and further calls can follow.
C22_Witness ==
  \E k \in Keys :
    /\ variant = "strict"
    /\ last.op = "fetchReject" /\ last.key = k /\ last.returns = "error"
    /\ lastFetch[k] > 0 /\ elements[k] = 0 /\ calls < MaxCalls

\* C23: a subscribe whose key argument resolves to no key registers no
\* data listener and no error listener, calls no fetcher, calls neither
\* onData nor onError and leaves the cache as it was.
C23_KeylessSubscribeIsInert ==
  [][(last'.op = "subscribe" /\ last'.key \in FalsyKeys)
       => /\ listeners' = listeners
          /\ elements' = elements /\ SWRGet(Cur, "a")' = SWRGet(Cur, "a")
          /\ Pending(Cur)' = Pending(Cur) /\ ~last'.fetched /\ last'.fetches = 0
          /\ \A s \in 1..MaxSubs : subs'[s].got = <<>> /\ subs'[s].errs = <<>>]_vars

\* C24: the data stored in a resolving item is never handed out: what get
\* returns, what onData of a subscription is called with and what a getWait
\* promise resolves to is a value that a fetch or a mutate settled to, or
\* undefined, never the promise itself.
C24_NoPromiseHandedOut ==
  /\ last.op = "get" => last.detail \in Values \cup {Null, Undef}
  /\ \A s \in 1..MaxSubs : \A n \in 1..Len(subs[s].got) :
        subs[s].got[n] \in Values \cup {Undef}
  /\ \A w \in 1..MaxWaits :
        waits[w].st = "resolved" => waits[w].val \in Values \cup {Null}

\* get has just returned undefined while the item stored under the key
\* holds the promise of a fetch that is running, and a getWait promise of
\* the key is still pending.
C24_Witness ==
  \E k \in Keys :
    /\ last.op = "get" /\ last.key = k /\ last.detail = Undef
    /\ CacheHas(Cur, k) /\ CacheGet(Cur, k).data = Promise
    /\ CacheGet(Cur, k).fetch = "pending"
    /\ \E w \in 1..MaxWaits : waits[w].key = k /\ waits[w].st = "pending"

\* C25: a revalidate of key k calls the fetcher exactly when force is true,
\* or k has no entry, or the entry of k has expired; when it calls no
\* fetcher it writes nothing to the cache.
C25_FetchIffForcedAbsentOrExpired ==
  [][\A k \in Keys :
       (last'.op = "revalidate" /\ last'.key = k)
         => /\ last'.fetched
                 <=> (\/ last'.flag
                      \/ elements[k] = 0
                      \/ items[elements[k]].expiresAt = NoExpiry
                      \/ items[elements[k]].expiresAt < 0)
            /\ last'.fetches = IF last'.fetched THEN 1 ELSE 0
            /\ ~last'.fetched
                 => /\ elements' = elements /\ items' = items
                    /\ microtasks' = microtasks]_vars

\* A revalidate of the lenient class has just found an entry that has not
\* expired and called no fetcher.
C25_Witness ==
  \E k \in Keys :
    /\ variant = "lenient"
    /\ last.op = "revalidate" /\ last.key = k /\ ~last.flag /\ ~last.fetched
    /\ CacheHas(Cur, k) /\ CacheGet(Cur, k).expiresAt >= 0

\* C26: an emit invokes every listener that is registered on the key when
\* it starts exactly once, whatever the listeners unsubscribe meanwhile:
\* when a fetch settles to a value v, onData of every subscription
\* registered on the key is called with v once and every getWait promise
\* registered on the key resolves; when a fetch fails with e, onError of
\* every subscription registered on the key is called with e once.
C26_EmitReachesEveryListener ==
  [][\A k \in Keys :
       /\ (last'.op = "fetchResolve" /\ last'.key = k /\ last'.detail \in Values)
            => /\ \A s \in 1..MaxSubs :
                    InSeq(SubListener(s), listeners["data"][k])
                      => subs'[s].got = <<last'.detail>>
               /\ \A w \in 1..MaxWaits :
                    InSeq(WaitListener(w), listeners["data"][k])
                      => ~InSeq(WaitListener(w), listeners'["data"][k])
       /\ (last'.op = "fetchReject" /\ last'.key = k)
            => \A s \in 1..MaxSubs :
                 InSeq(SubListener(s), listeners["err"][k])
                   => Len(subs'[s].errs) = 1]_vars

\* Listener l1 stands before listener l2 in the array of key k on a bus.
Before(ls, bus, k, l1, l2) ==
  /\ InSeq(l1, ls[bus][k]) /\ InSeq(l2, ls[bus][k])
  /\ IndexOf(ls[bus][k], l1) < IndexOf(ls[bus][k], l2)

\* C27: the listeners of a key are invoked in the order in which they were
\* subscribed: no job changes the relative order of two listeners that
\* stay registered, a listener that a job registers stands behind all
\* that were registered before, and the listeners that one emit invokes
\* are invoked in the order of the array.
C27_InvokedInSubscriptionOrder ==
  [][\A bus \in {"data", "err"}, k \in Keys :
       /\ \A l1, l2 \in {SubListener(s) : s \in 1..MaxSubs}
                           \cup {WaitListener(w) : w \in 1..MaxWaits} :
            /\ (Before(listeners, bus, k, l1, l2) /\ InSeq(l1, listeners'[bus][k])
                  /\ InSeq(l2, listeners'[bus][k]))
                 => Before(listeners', bus, k, l1, l2)
            /\ (InSeq(l1, listeners[bus][k]) /\ InSeq(l1, listeners'[bus][k])
                  /\ ~InSeq(l2, listeners[bus][k]) /\ InSeq(l2, listeners'[bus][k]))
                 => Before(listeners', bus, k, l1, l2)
       /\ \A n \in 1..(Len(last'.invoked) - 1) :
            (/\ last'.invoked[n].bus = bus /\ last'.invoked[n + 1].bus = bus
             /\ last'.invoked[n].l # EmitStart /\ last'.invoked[n + 1].l # EmitStart)
              => Before(listeners, bus, k, last'.invoked[n].l, last'.invoked[n + 1].l)]_vars

\* An emit has just invoked onData of a subscription and then the listener
\* of a getWait promise that was registered after it.
C27_Witness ==
  /\ last.op = "fetchResolve"
  /\ last.invoked = <<[bus |-> "data", l |-> EmitStart],
                      [bus |-> "data", l |-> SubListener(1)],
                      [bus |-> "data", l |-> WaitListener(1)]>>

\* C28: a non-forced revalidate that finds an entry that has not expired
\* returns the value of the entry: at once when the entry is settled, and
\* when the fetch of the entry settles otherwise, so that no promise of
\* such a revalidate is still pending after the fetch has resolved (to a
\* value or to null) or failed.
C28_DedupedRevalidateSettlesWithFetch ==
  [][\A k \in Keys :
       /\ (NonForcedRevalidate(k)' /\ last'.op = "revalidate" /\ last'.had # Undef
             /\ ~hasExpired(CacheGet(Cur, k)))
            => \E w \in 1..MaxWaits :
                 /\ waits[w].st = "free" /\ waits'[w].st = "resolved"
                 /\ waits'[w].val = last'.had
       /\ (last'.op \in {"fetchResolve", "fetchReject"} /\ last'.key = k
             /\ elements[k] = last'.item)
            => \A w \in 1..MaxWaits :
                 (waits[w].key = k /\ waits[w].st = "pending")
                   => waits'[w].st \in {"resolved", "rejected"}]_vars

\* No fetch is running and no resolve continuation is waiting to run.
AllSettled ==
  /\ microtasks = <<>>
  /\ \A i \in 1..MaxItems : items[i].fetch # "pending"

\* C29: when every promise has settled, what was broadcast last for a key
\* that is present is what get returns for it: a job that broadcasts a
\* value for key k and leaves k present with nothing unsettled leaves get(k)
\* returning that value.
C29_LastBroadcastIsStoredValue ==
  [][\A k \in Keys :
       (/\ last'.op \in {"fetchResolve", "resolve"} /\ last'.key = k
        /\ InSeq([bus |-> "data", l |-> EmitStart], last'.invoked)
        /\ AllSettled' /\ elements'[k] # 0)
         => SWRGet(Cur, k)' = last'.detail]_vars

\* C30: the revalidation that follows a mutate called without
\* revalidateOptions calls the fetcher of the instance and gives the item
\* the dedupingInterval of the instance.
C30_MutateRevalidatesWithInstanceOptions ==
  [][(last'.op = "mutate" /\ last'.flag /\ last'.fetched)
       => /\ last'.fetcher = options.fetcher
          /\ last'.interval = options.dedupingInterval]_vars

\* C31: mutate stores its value in an item without expiration, and a
\* non-forced revalidate that finds the item of a mutate stored under the
\* key calls the fetcher, whatever is left of the dedupingInterval of
\* earlier fetches; so does the revalidate that mutate itself runs when its
\* revalidate option is true.
C31_RevalidateAfterMutateFetches ==
  [][\A k \in Keys :
       /\ (last'.op = "mutate" /\ last'.key = k /\ ~last'.flag)
            => /\ elements'[k] # 0
               /\ items'[elements'[k]].expiresAt = NoExpiry
               /\ items'[elements'[k]].data = last'.detail
       /\ (last'.op = "mutate" /\ last'.key = k /\ last'.flag)
            => last'.fetches = 1
       /\ (/\ last'.op = "revalidate" /\ last'.key = k /\ ~last'.flag
           /\ elements[k] # 0 /\ items[elements[k]].fetch = "none")
            => last'.fetched /\ last'.fetches = 1]_vars

\* A non-forced revalidate has just called the fetcher for a key whose
\* value came from mutate, while an earlier fetch of the key is running
\* and its dedupingInterval is not over.
C31_Witness ==
  \E k \in Keys, i \in 1..MaxItems :
    /\ last.op = "revalidate" /\ last.key = k /\ ~last.flag /\ last.fetched
    /\ last.had \in Values
    /\ items[i].key = k /\ items[i].fetch = "pending" /\ elements[k] # i
    /\ items[i].expiresAt >= 0 /\ lastFetch[k] = DedupingInterval

\* C32: set calls no listener and removes no key before it returns, also
\* when the data of its item is settled: after a mutate or a revalidate,
\* which do nothing to the cache but set, no listener has been called, the
\* item that was set is stored under the key, null or not, and the
\* continuation of a settled item waits in the queue.
C32_SetResolvesLater ==
  [][\A k \in Keys :
       /\ (last'.op \in {"mutate", "revalidate"} /\ last'.key = k)
            => /\ last'.invoked = <<>>
               /\ \A s \in 1..MaxSubs : subs'[s].got = <<>>
               /\ elements[k] # 0 => elements'[k] # 0
       /\ (last'.op = "mutate" /\ last'.key = k /\ ~last'.flag)
            => /\ elements'[k] # 0
               /\ items'[elements'[k]].data = last'.detail
               /\ microtasks' = Append(microtasks, elements'[k])]_vars

\* A mutate has just set null for a key that a subscription listens on:
\* the key is present and the subscription was not called.
C32_Witness ==
  \E k \in Keys :
    /\ last.op = "mutate" /\ last.key = k /\ ~last.flag /\ last.detail = Null
    /\ CacheHas(Cur, k) /\ CacheGet(Cur, k).data = Null
    /\ microtasks # <<>>
    /\ \E s \in ActiveSubs(k) : InSeq(SubListener(s), listeners["data"][k])

\* The number of times that listener l was called by the latest job.
Invocations(l) ==
  Cardinality({n \in 1..Len(last.invoked) : last.invoked[n].l = l})

\* C33: subscribing a listener to a key that already has it changes
\* nothing, so that no array ever holds a listener twice, an emit calls a
\* listener at most once and one unsubscribe leaves the listener out of
\* the array.
C33_SubscribeTwiceIsOnce ==
  [][\A k \in Keys, l \in BusListeners :
       /\ (last'.op = "busSubscribe" /\ last'.key = k /\ last'.listener.l = l)
            => /\ InSeq(l, listeners'["data"][k])
               /\ InSeq(l, listeners["data"][k]) => listeners' = listeners
       /\ Cardinality({n \in 1..Len(listeners'["data"][k]) :
                         listeners'["data"][k][n] = l}) <= 1
       /\ (last'.op = "busUnsubscribe" /\ last'.key = k /\ last'.listener.l = l)
            => ~InSeq(l, listeners'["data"][k])
       /\ (last'.op = "busEmit" /\ last'.key = k) => Invocations(l)' <= 1]_vars

\* A subscribe of a listener that the key already had has just returned,
\* with another listener registered behind it.
C33_Witness ==
  \E k \in Keys, l \in BusListeners :
    /\ last.op = "busSubscribe" /\ last.key = k /\ last.listener.l = l
    /\ Len(listeners["data"][k]) = 2 /\ listeners["data"][k][1] = l

\* C34: the listeners Map of an event manager holds no key with an empty
\* array, whatever subscribe, unsubscribe and emit calls came before, and
\* an unsubscribe of a listener that the key does not have changes nothing.
C34_NoEmptyListenerList ==
  [][\A bus \in {"data", "err"}, k \in Keys :
       /\ k \in listed'[bus] <=> listeners'[bus][k] # <<>>
       /\ \A l \in BusListeners :
            (/\ last'.op = "busUnsubscribe" /\ last'.key = k /\ last'.listener.l = l
             /\ ~InSeq(l, listeners["data"][k]))
              => listeners' = listeners /\ listed' = listed]_vars

\* An emit has just called the only listener of a key, which unsubscribed
\* itself: the Map no longer holds the key.
C34_Witness ==
  \E k \in Keys, w \in 1..MaxWaits :
    /\ last.op = "busEmit" /\ last.key = k
    /\ last.invoked = <<[bus |-> "data", l |-> EmitStart],
                        [bus |-> "data", l |-> WaitListener(w)]>>
    /\ listeners["data"][k] = <<>> /\ k \notin listed["data"]

\* C35: the LocalStorageCache answers has and get as the DefaultCache that
\* was given the same set, remove and clear calls and the same
\* settlements: has agrees for every key, and so does the data of get for
\* the keys that are present.
C35_LocalStorageAnswersAlike ==
  \A k \in Keys :
    /\ LocalHas(Cur, k) <=> CacheHas(Cur, k)
    /\ CacheHas(Cur, k) => LocalGetData(Cur, k) = CacheGet(Cur, k).data

\* C36: a subscribe whose key argument is a function calls that function
\* exactly once.
C36_KeyProducerEvaluatedOnce ==
  [][(last'.op = "subscribe" /\ last'.producer) => last'.evaluations = 1]_vars

\* C37: hasExpired() is true exactly when expiresAt is unset or not later
\* than now, for every item that the cache has been given; expiresAt is
\* kept relative to now, so an item at its deadline has expiresAt = 0.
C37_ExpiredAtDeadline ==
  \A i \in 1..MaxItems :
    items[i].fetch # "free"
      => (hasExpired(items[i])
            <=> (items[i].expiresAt = NoExpiry \/ items[i].expiresAt <= 0))

====
